---- MODULE Spec2Model ----
(***************************************************************************)
(* A model of src/lib/builder/writer.ts: the source-map tracking writer    *)
(* (SourceMapWriter) and the growable byte buffer (BufferStream).          *)
(*                                                                         *)
(* Text is a sequence of character codes, as read by charCodeAt; indexes   *)
(* i, lastLineBreak, lines and columns are 0-based as in the source, and   *)
(* text[i + 1] is the source's content.charAt(i).                          *)
(***************************************************************************)
EXTENDS Integers, Sequences, FiniteSets, TLC

\* ------------------------------------------------------------------ bounds
\* Total number of characters handed to write over the life of a writer.
MaxTotalLen == 2
\* Largest number of indentChar copies held by indentString.
MaxIndent == 1
\* Largest capacity a BufferStream is constructed with.
MaxInitCapacity == 2
\* Longest chunk handed to _write.
MaxChunkLen == 3
\* Total number of bytes handed to _write over the life of a stream.
MaxAppended == 4

\* ----------------------------------------------------------- characters
CR == 13
LF == 10
LetterA == <<97>>
Chars == {LetterA[1], CR, LF}

\* All texts of at most n characters.
RECURSIVE TextsUpTo(_)
TextsUpTo(n) ==
    IF n = 0 THEN {<<>>}
    ELSE LET shorter == TextsUpTo(n - 1)
         IN  shorter \cup {Append(t, c) : t \in {s \in shorter : Len(s) = n - 1}, c \in Chars}

\* The texts handed to write.  write("") runs no loop iteration and leaves
\* every field as it was, so only the texts that change the writer are drawn.
Texts == TextsUpTo(MaxTotalLen) \ {<<>>}

IsLineBreakChar(ch) == ch = CR \/ ch = LF

\* ------------------------------------------------------------ source maps
\* nameIndex of an entry that has none (the property is undefined).
NoName == 0 - 1

Mapping(column, sourceIndex, sourceLine, sourceColumn, nameIndex) ==
    [column |-> column, sourceIndex |-> sourceIndex, sourceLine |-> sourceLine,
     sourceColumn |-> sourceColumn, nameIndex |-> nameIndex]

\* A SourceMapBuilder: a sources list and a sparse array of lines, each a
\* sequence of mapping entries.
NoLines == [l \in {} |-> <<>>]

EmptyBuilder == [sources |-> <<>>, mappings |-> NoLines]

\* mappings[line] || []
LineMappings(mappings, line) ==
    IF line \in DOMAIN mappings THEN mappings[line] ELSE <<>>

\* mappings[line] = entries on a sparse array
SetLine(mappings, line, entries) ==
    [l \in (DOMAIN mappings) \cup {line} |-> IF l = line THEN entries ELSE mappings[l]]

\* SourceMapBuilder.addSource: the list after registering path, and the
\* 0-based index of path in it.
AddSourceList(sources, path) ==
    IF \E k \in 1..Len(sources) : sources[k] = path THEN sources ELSE Append(sources, path)

AddSourceIndex(sources, path) ==
    LET list == AddSourceList(sources, path)
    IN  (CHOOSE k \in 1..Len(list) : list[k] = path /\ \A j \in 1..(k - 1) : list[j] # path) - 1

\* ------------------------------------------------------------------ files
\* The origin files handed to write.  A.src is an original source with no
\* source map; stage1.out and stage1b.out are outputs of an earlier stage
\* and carry the map that stage composed (pointing into O.src and P.src).
FileNames == {"A", "B", "C"}

File(name) ==
    CASE name = "A" ->
           [srcPath |-> "A.src", destPath |-> "A.out", hasMap |-> FALSE,
            content |-> <<97, 10, 97>>, sourceMapBuilder |-> EmptyBuilder]
      [] name = "B" ->
           [srcPath |-> "", destPath |-> "stage1.out", hasMap |-> TRUE,
            content |-> <<97, 97>>,
            sourceMapBuilder |->
              [sources |-> <<"O.src">>,
               mappings |-> (0 :> << Mapping(0, 0, 3, 4, NoName), Mapping(1, 0, 3, 6, 0) >>)]]
      [] OTHER ->
           [srcPath |-> "stage1b.out", destPath |-> "", hasMap |-> TRUE,
            content |-> <<97, 10, 97>>,
            sourceMapBuilder |->
              [sources |-> <<"O.src", "P.src">>,
               mappings |-> (1 :> << Mapping(0, 1, 5, 1, NoName) >>)]]

\* sourceFile.srcPath || sourceFile.destPath || ""
FilePath(f) == IF f.srcPath # "" THEN f.srcPath ELSE IF f.destPath # "" THEN f.destPath ELSE ""

\* The origin argument of write: absent, or (file, line, column).
NoOrigin == [has |-> FALSE, file |-> "A", line |-> 0, column |-> 0]
\* The positions write is given for each file.
OriginPositions(name) ==
    CASE name = "A" -> {<<0, 1>>, <<1, 0>>}
      [] name = "B" -> {<<0, 0>>, <<0, 1>>}
      [] OTHER -> {<<0, 0>>}

Origins ==
    {NoOrigin} \cup
    UNION {{[has |-> TRUE, file |-> f, line |-> p[1], column |-> p[2]] : p \in OriginPositions(f)} : f \in FileNames}

\* ----------------------------------------------------------- Writer.write
\* The length of the match of /\r\n?|\n/ that starts at index i of text, and
\* 0 when none starts there.
LineBreakMatch(text, i) ==
    IF text[i + 1] = CR
    THEN (IF i + 1 < Len(text) /\ text[i + 2] = LF THEN 2 ELSE 1)
    ELSE IF text[i + 1] = LF THEN 1 ELSE 0

\* content.replace(/\r\n?|\n/g, "$&" + indentString), from index i on: each
\* match is followed by indentString, every other character is kept.
RECURSIVE ReplaceLineBreaks(_, _, _)
ReplaceLineBreaks(text, i, indentString) ==
    IF ~(i < Len(text)) THEN <<>>
    ELSE LET n == LineBreakMatch(text, i) IN
         IF n > 0
         THEN SubSeq(text, i + 1, i + n) \o indentString \o ReplaceLineBreaks(text, i + n, indentString)
         ELSE <<text[i + 1]>> \o ReplaceLineBreaks(text, i + 1, indentString)

\* Writer.write(content): this.content afterwards.
PlainWriteResult(content, indentString, text) ==
    content \o (IF indentString # <<>> THEN ReplaceLineBreaks(text, 0, indentString) ELSE text)

\* --------------------------------------------------- SourceMapWriter.write
\* The scan for the last line break: the largest i with text[i] a \r or \n,
\* and -1 when the text has none.
LastLineBreak(text) ==
    LET breaks == {i \in 0..(Len(text) - 1) : IsLineBreakChar(text[i + 1])}
    IN  IF breaks = {} THEN 0 - 1 ELSE CHOOSE i \in breaks : \A j \in breaks : j <= i

\* A scan that would not look for the \n of a \r\n pair.
IsCRLFAtNever(text, i) == FALSE

\* content.charCodeAt(i + 1) === 10 directly after a \r at i
IsCRLFAt(text, i) == text[i + 1] = CR /\ i + 1 < Len(text) /\ text[i + 2] = LF

\* A loop that would not take a \r for a line break.
FoldedCharKeepsCR(text, i) == text[i + 1]

\* The value of ch once a \r has been folded into a line break.
FoldedChar(text, i) == IF text[i + 1] = CR THEN LF ELSE text[i + 1]

\* A loop that would turn every line break into one \n.
AppendedCharsNormalized(text, i) == <<FoldedChar(text, i)>>

\* What one loop iteration appends to content for the character at i,
\* before any indent: the character itself, and the \n of a \r\n pair.
AppendedChars(text, i) ==
    IF IsCRLFAt(text, i) THEN <<text[i + 1], LF>> ELSE <<text[i + 1]>>

\* A loop that would not step over the \n of a \r\n pair.
IndexAfterCharNoSkip(text, i) == i

\* The value of i after the \r\n skip.
IndexAfterChar(text, i) == IF IsCRLFAt(text, i) THEN i + 1 ELSE i

\* _currentColumn right after a line break.
ColumnAfterBreak(indentString) == IF indentString # <<>> THEN Len(indentString) ELSE 0

\* A guard that would hold at every character.
EmitsMappingAtEveryChar(hasOrigin, ch, i) == hasOrigin

\* A guard that would forget the start of the text.
EmitsMappingOnBreakOnly(hasOrigin, ch, i) == hasOrigin /\ ch = LF

\* A guard that would not ask for an origin file.
EmitsMappingWithoutOrigin(hasOrigin, ch, i) == ch = LF \/ i = 0

\* sourceFile && (ch === 10 || i === 0)
EmitsMapping(hasOrigin, ch, i) == hasOrigin /\ (ch = LF \/ i = 0)

\* First line: a mapping before sourceColumn is skipped.
SkipsBeforeOrigin(i, mappingColumn, sourceColumn) == i = 0 /\ mappingColumn < sourceColumn

\* Last line: a mapping past the new length of the content ends the copy.
StopsAfterContent(i, lastLineBreak, mappingColumn, textLen, sourceColumn) ==
    /\ i = lastLineBreak
    /\ mappingColumn >= textLen + (IF i = 0 THEN sourceColumn ELSE 0 - lastLineBreak)

\* A copy that would keep the column the entry has in the origin map.
NewColumnKept(mappingColumn, sourceColumn, currentColumn) == mappingColumn

\* mapping.column - sourceColumn + this._currentColumn
NewColumn(mappingColumn, sourceColumn, currentColumn) == mappingColumn - sourceColumn + currentColumn

\* mappings.pop() when the last entry sits at newColumn, then mappings.push.
PushCopied(entries, entry) ==
    IF Len(entries) > 0 /\ entries[Len(entries)].column = entry.column
    THEN Append(SubSeq(entries, 1, Len(entries) - 1), entry)
    ELSE Append(entries, entry)

\* The loop over srcSourceMap.mappings[sourceLine], from its k-th entry on.
\* acc holds the current line's entries and the sources list.
RECURSIVE CopyOriginMappings(_, _, _, _, _, _, _, _, _)
CopyOriginMappings(acc, srcSourceMap, srcEntries, k, i, lastLineBreak, textLen, sourceColumn, currentColumn) ==
    IF k > Len(srcEntries) THEN acc
    ELSE LET mapping == srcEntries[k] IN
         IF SkipsBeforeOrigin(i, mapping.column, sourceColumn)
         THEN CopyOriginMappings(acc, srcSourceMap, srcEntries, k + 1, i, lastLineBreak,
                                 textLen, sourceColumn, currentColumn)
         ELSE IF StopsAfterContent(i, lastLineBreak, mapping.column, textLen, sourceColumn)
         THEN acc
         ELSE LET path == srcSourceMap.sources[mapping.sourceIndex + 1]
                  copied == Mapping(NewColumn(mapping.column, sourceColumn, currentColumn),
                                    AddSourceIndex(acc.sources, path),
                                    mapping.sourceLine, mapping.sourceColumn, mapping.nameIndex)
              IN  CopyOriginMappings(
                      [entries |-> PushCopied(acc.entries, copied),
                       sources |-> AddSourceList(acc.sources, path)],
                      srcSourceMap, srcEntries, k + 1, i, lastLineBreak,
                      textLen, sourceColumn, currentColumn)

\* The body of `if (sourceFile && (ch === 10 || i === 0))`: the fresh entry
\* for (_currentLine, _currentColumn), then the copy from the origin map.
EmitMapping(w, file, i, lastLineBreak, textLen) ==
    LET path == FilePath(file)
        fresh == Mapping(w.column, AddSourceIndex(w.sources, path), w.sourceLine, w.sourceColumn, NoName)
        pushed == [entries |-> Append(LineMappings(w.mappings, w.line), fresh),
                   sources |-> AddSourceList(w.sources, path)]
        done == IF file.hasMap
                THEN CopyOriginMappings(pushed, file.sourceMapBuilder,
                                        LineMappings(file.sourceMapBuilder.mappings, w.sourceLine),
                                        1, i, lastLineBreak, textLen, w.sourceColumn, w.column)
                ELSE pushed
    IN  [w EXCEPT !.mappings = SetLine(w.mappings, w.line, done.entries),
                  !.sources = done.sources]

\* One iteration of the character loop at index i, and the iterations after
\* it.  w carries content, the cursor, the origin cursor (sourceLine,
\* sourceColumn), the builder's mappings and sources, and `fresh`: for each
\* fresh entry pushed by this call, its line and column, its sourceLine and
\* the number of characters of content that precede the text it maps.
RECURSIVE WriteLoop(_, _, _, _, _, _, _)
WriteLoop(w, text, i, hasOrigin, file, indentString, lastLineBreak) ==
    IF ~(i < Len(text)) THEN w
    ELSE LET ch == FoldedChar(text, i)
             i2 == IndexAfterChar(text, i)
             w1 == [w EXCEPT !.content = w.content \o AppendedChars(text, i)]
             w2 == IF ch = LF
                   THEN [w1 EXCEPT !.line = w1.line + 1,
                                   !.sourceLine = w1.sourceLine + 1,
                                   !.sourceColumn = 0,
                                   !.content = w1.content \o indentString,
                                   !.column = ColumnAfterBreak(indentString)]
                   ELSE w1
             w3 == IF EmitsMapping(hasOrigin, ch, i2)
                   THEN [EmitMapping(w2, file, i2, lastLineBreak, Len(text))
                           EXCEPT !.fresh = Append(w2.fresh,
                                      [line |-> w2.line, column |-> w2.column,
                                       sourceLine |-> w2.sourceLine,
                                       offset |-> Len(w2.content) - (IF ch = LF THEN 0 ELSE 1)])]
                   ELSE w2
         IN  WriteLoop(w3, text, i2 + 1, hasOrigin, file, indentString, lastLineBreak)

\* The column left for the next call.
FinalColumn(textLen, lastLineBreak, currentColumn, indentString) ==
    textLen + (IF lastLineBreak < 0
               THEN currentColumn
               ELSE (0 - lastLineBreak) + (IF indentString # <<>> THEN Len(indentString) ELSE 0))

\* SourceMapWriter.write(content, sourceFile, sourceLine, sourceColumn) on a
\* writer w; origin.has is `sourceFile` being given.
WriteResult(w, indentString, text, origin) ==
    LET lastLineBreak == LastLineBreak(text)
        start == [w EXCEPT !.sourceLine = origin.line, !.sourceColumn = origin.column, !.fresh = <<>>]
        scanned == WriteLoop(start, text, 0, origin.has, File(origin.file), indentString, lastLineBreak)
    IN  [scanned EXCEPT !.column = FinalColumn(Len(text), lastLineBreak, scanned.column, indentString)]

\* ------------------------------------------------------------------ state
VARIABLES
    \* Writer / SourceMapWriter fields
    content,            \* this.content
    indentString,       \* this.indentString
    indentChar,         \* this.indentChar
    currentLine,        \* this._currentLine
    currentColumn,      \* this._currentColumn
    sourceMapBuilder,   \* this._sourceMapBuilder: sources and mappings
    plainContent,       \* this.content of a Writer given the same calls
    file,               \* this.file, the output target the writer is bound to
    \* history of the calls made on the writer
    lastCall,           \* the last call: "init", "write", "indent", "unindent" or "end",
                        \* and for a write its arguments, the indentString it ran
                        \* under, whether it was the first write and the fresh
                        \* entries it pushed
    written,            \* every text handed to write, concatenated
    \* BufferStream fields
    buffer,             \* this._buffer
    length,             \* this._length
    \* history of the calls made on the stream
    bufferOp,           \* "init", "write", "toBuffer" or "end"
    initialCapacity,    \* capacity at construction
    appended,           \* every chunk handed to _write, concatenated
    extracted           \* the last toBuffer call: its range and its result

writerVars == <<content, indentString, indentChar, currentLine, currentColumn,
                sourceMapBuilder, plainContent, lastCall, written>>
bufferVars == <<buffer, length, bufferOp, initialCapacity, appended, extracted>>
vars == <<content, indentString, indentChar, currentLine, currentColumn,
          sourceMapBuilder, plainContent, file, lastCall, written,
          buffer, length, bufferOp, initialCapacity, appended, extracted>>

\* indentChar = "\t", the default.
IndentChars == {<<9>>}

\* The record of a call: lastCall.indentString is the indentString the call
\* found, lastCall.after the call that preceded an unindent().
NoCall(op) == [op |-> op, text |-> <<>>, origin |-> NoOrigin, indentString |-> <<>>, first |-> FALSE,
               fresh |-> <<>>, after |-> ""]

NoExtract == [valid |-> FALSE, start |-> 0, end |-> 0, bytes |-> <<>>]

\* The output target before end(): none of its fields has been assigned.
NoFile == [assigned |-> {}, content |-> <<>>, sourceMapData |-> EmptyBuilder, buffer |-> <<>>]

\* end() is the last call a stage makes on a writer: the calls below are
\* those made before it.
Open == file.assigned = {}

\* A SourceMapWriter right after construction.
InitWriter ==
    /\ content = <<>>
    /\ indentString = <<>>
    /\ indentChar \in IndentChars
    /\ currentLine = 0
    /\ currentColumn = 0
    /\ sourceMapBuilder = EmptyBuilder
    /\ plainContent = <<>>
    /\ lastCall = NoCall("init")
    /\ written = <<>>

\* Writer.indent
Indent ==
    /\ Open /\ UNCHANGED file
    /\ Len(indentString) < MaxIndent * Len(indentChar)
    /\ indentString' = indentString \o indentChar
    /\ lastCall' = [NoCall("indent") EXCEPT !.indentString = indentString]
    /\ UNCHANGED <<content, indentChar, currentLine, currentColumn, sourceMapBuilder,
                   plainContent, written>>
    /\ UNCHANGED bufferVars

\* An unindent that would leave indentString as it is.
UnindentKeepsAll(str, char) == str

\* indentString.substr(0, indentString.length - indentChar.length)
UnindentResult(str, char) ==
    IF Len(str) - Len(char) > 0 THEN SubSeq(str, 1, Len(str) - Len(char)) ELSE <<>>

\* Writer.unindent
Unindent ==
    /\ Open /\ UNCHANGED file
    /\ indentString' = UnindentResult(indentString, indentChar)
    /\ lastCall' = [NoCall("unindent") EXCEPT !.indentString = indentString,
                                              !.after = lastCall.op]
    /\ UNCHANGED <<content, indentChar, currentLine, currentColumn, sourceMapBuilder,
                   plainContent, written>>
    /\ UNCHANGED bufferVars

\* write(content, sourceFile, sourceLine, sourceColumn), called with the
\* same arguments on the SourceMapWriter and on the Writer.
Write(text, origin) ==
    /\ Open /\ UNCHANGED file
    /\ Len(written) + Len(text) <= MaxTotalLen
    /\ \E r \in {WriteResult([content |-> content, line |-> currentLine, column |-> currentColumn,
                                sourceLine |-> 0, sourceColumn |-> 0,
                                mappings |-> sourceMapBuilder.mappings,
                                sources |-> sourceMapBuilder.sources,
                                fresh |-> <<>>],
                               indentString, text, origin)} :
           /\ content' = r.content
           /\ currentLine' = r.line
           /\ currentColumn' = r.column
           /\ sourceMapBuilder' = [sources |-> r.sources, mappings |-> r.mappings]
           /\ lastCall' = [op |-> "write", text |-> text, origin |-> origin,
                           indentString |-> indentString, first |-> (written = <<>>),
                           fresh |-> r.fresh, after |-> ""]
    /\ plainContent' = PlainWriteResult(plainContent, indentString, text)
    /\ written' = written \o text
    /\ UNCHANGED <<indentString, indentChar>>
    /\ UNCHANGED bufferVars

\* SourceMapWriter.end: super.end() assigns the content, then the builder is
\* attached.
End ==
    /\ Open
    /\ file' = [file EXCEPT !.assigned = {"content", "sourceMapData"},
                            !.content = content,
                            !.sourceMapData = sourceMapBuilder]
    /\ lastCall' = NoCall("end")
    /\ UNCHANGED <<content, indentString, indentChar, currentLine, currentColumn,
                   sourceMapBuilder, plainContent, written>>
    /\ UNCHANGED bufferVars

\* ------------------------------------------------------------ BufferStream
Byte == {0, 1}

Min(a, b) == IF a < b THEN a ELSE b

\* Buffer.allocUnsafe(n): n bytes of whatever the memory held.
AllocUnsafe(n) == [1..n -> Byte]

BytesUpTo(n) == UNION {[1..k -> Byte] : k \in 0..n}

\* The number of bytes source.copy(target, targetStart, sourceStart,
\* sourceEnd) copies: nothing when the target offset is past the target or
\* the source range is empty, and otherwise what fits in both.
CopyCount(sourceLen, targetLen, targetStart, sourceStart, sourceEnd) ==
    IF targetStart >= targetLen \/ sourceStart >= sourceEnd THEN 0
    ELSE Min(Min(sourceEnd - sourceStart, targetLen - targetStart), sourceLen - sourceStart)

\* The target after source.copy(target, targetStart, sourceStart, sourceEnd).
BufferCopy(source, target, targetStart, sourceStart, sourceEnd) ==
    LET n == CopyCount(Len(source), Len(target), targetStart, sourceStart, sourceEnd)
    IN  [k \in 1..Len(target) |->
            IF targetStart < k /\ k <= targetStart + n
            THEN source[sourceStart + (k - targetStart)]
            ELSE target[k]]

\* An ensureCapacity without its early return.
FitsCapacityNever(requested, capacity) == FALSE

\* if (length < this._buffer.length) return;
FitsCapacity(requested, capacity) == requested < capacity

\* Math.min(length, this._buffer.length * 2 - 1)
NewCapacity(requested, capacity) == Min(requested, capacity * 2 - 1)

\* BufferStream.ensureCapacity(requested): this._buffer afterwards, where
\* newBuffer is the allocation it makes when it grows.
EnsureCapacity(buf, len, requested, newBuffer) ==
    IF FitsCapacity(requested, Len(buf)) THEN buf
    ELSE BufferCopy(buf, newBuffer, 0, 0, len)

\* The allocations ensureCapacity(requested) can get.
Allocations(buf, requested) ==
    IF FitsCapacity(requested, Len(buf)) THEN {<<>>}
    ELSE AllocUnsafe(NewCapacity(requested, Len(buf)))

\* A BufferStream right after construction.  The source allocates 128 * 1024
\* bytes; the model scales the capacity down and draws it from
\* 1..MaxInitCapacity, its bytes being whatever the allocation held.
InitBuffer ==
    /\ initialCapacity \in 1..MaxInitCapacity
    /\ buffer \in AllocUnsafe(initialCapacity)
    /\ length = 0
    /\ bufferOp = "init"
    /\ appended = <<>>
    /\ extracted = NoExtract

\* BufferStream._write(chunk)
BufferWrite(chunk) ==
    /\ Open /\ UNCHANGED file
    /\ Len(appended) + Len(chunk) <= MaxAppended
    /\ \E newBuffer \in Allocations(buffer, length + Len(chunk)) :
          buffer' = BufferCopy(chunk, EnsureCapacity(buffer, length, length + Len(chunk), newBuffer),
                               length, 0, Len(chunk))
    /\ length' = length + Len(chunk)
    /\ bufferOp' = "write"
    /\ appended' = appended \o chunk
    /\ UNCHANGED <<initialCapacity, extracted>>
    /\ UNCHANGED writerVars

\* BufferStream.toBuffer(start, end), for a range inside [0, length).  A
\* start past the end of this._buffer makes copy throw a RangeError and
\* nothing is returned.
ToBuffer(start, end) ==
    /\ Open /\ UNCHANGED file
    /\ start <= end /\ end <= length
    /\ start <= Len(buffer)
    /\ \E result \in AllocUnsafe(end - start) :
          extracted' = [valid |-> TRUE, start |-> start, end |-> end,
                        bytes |-> BufferCopy(buffer, result, 0, start, end)]
    /\ bufferOp' = "toBuffer"
    /\ UNCHANGED <<buffer, length, initialCapacity, appended>>
    /\ UNCHANGED writerVars

\* BufferStream.end: this.file.buffer = this.toBuffer(), the defaults being
\* start = 0 and end = this.length.
BufferEnd ==
    /\ Open
    /\ \E result \in AllocUnsafe(length) :
          file' = [file EXCEPT !.assigned = {"buffer"},
                               !.buffer = BufferCopy(buffer, result, 0, 0, length)]
    /\ bufferOp' = "end"
    /\ UNCHANGED <<buffer, length, initialCapacity, appended, extracted>>
    /\ UNCHANGED writerVars

\* ----------------------------------------------------------- specifications
\* The writer, with the stream left as constructed.
Init ==
    /\ InitWriter
    /\ file = NoFile
    /\ initialCapacity = 1 /\ buffer = <<0>> /\ length = 0 /\ bufferOp = "init"
    /\ appended = <<>> /\ extracted = NoExtract

Next ==
    \/ \E text \in Texts, origin \in Origins : Write(text, origin)
    \/ Indent
    \/ Unindent
    \/ End

Spec == Init /\ [][Next]_vars

\* The writer fed from leaf files only (no origin map), the empty text
\* included: write("", file) is a call with an origin whose loop never runs.
LeafTexts == TextsUpTo(MaxTotalLen)

LeafOrigins == {o \in Origins : ~o.has \/ ~File(o.file).hasMap}

NextLeaf ==
    \/ \E text \in LeafTexts, origin \in LeafOrigins : Write(text, origin)
    \/ Indent
    \/ Unindent
    \/ End

SpecLeaf == Init /\ [][NextLeaf]_vars

\* The stream, with the writer left as constructed.
InitStream ==
    /\ InitBuffer
    /\ file = NoFile
    /\ content = <<>> /\ indentString = <<>> /\ indentChar = <<9>>
    /\ currentLine = 0 /\ currentColumn = 0 /\ sourceMapBuilder = EmptyBuilder
    /\ plainContent = <<>>
    /\ lastCall = NoCall("init") /\ written = <<>>

NextStream ==
    \/ \E chunk \in BytesUpTo(MaxChunkLen) : BufferWrite(chunk)
    \/ \E start \in 0..MaxAppended, end \in 0..MaxAppended : ToBuffer(start, end)
    \/ BufferEnd

SpecBuffer == InitStream /\ [][NextStream]_vars

\* ------------------------------------------------------------- properties
\* BufferStream.capacity
Capacity == Len(buffer)

\* C1: the stream never holds more bytes than its backing store: length is
\* at most capacity in every state, so after each append capacity is at
\* least the length before it plus the chunk's length.
C1_LengthWithinCapacity == length <= Capacity

\* C2: once more bytes were appended than the initial capacity held,
\* length is the number of bytes appended and toBuffer(0, length) returns
\* them, byte for byte, in the order they were appended.
C2_GrowthKeepsBytes ==
    (/\ extracted.valid
     /\ bufferOp = "toBuffer"
     /\ extracted.start = 0
     /\ extracted.end = Len(appended)
     /\ Len(appended) > initialCapacity)
    => (length = Len(appended) /\ extracted.bytes = appended)

\* C10: the bytes toBuffer(start, end) returned are the bytes appended at
\* [start, end), and they stay so whatever is appended afterwards.
C10_ExtractIsolated ==
    extracted.valid => extracted.bytes = SubSeq(appended, extracted.start + 1, extracted.end)

\* The column at which content ends: the number of characters after its
\* last \r or \n, or its length when it has neither.
TrueColumn(str) == Len(str) - (LastLineBreak(str) + 1)

\* The line on which content ends: the number of its line breaks, a \r\n
\* pair being one.
TrueLine(str) ==
    Cardinality({k \in 1..Len(str) :
                    /\ IsLineBreakChar(str[k])
                    /\ ~(str[k] = LF /\ k > 1 /\ str[k - 1] = CR)})

\* No write so far carried an origin: every origin-bearing write of a
\* non-empty text registers its file in the sources list.
NoOriginSoFar == sourceMapBuilder.sources = <<>>

\* C3: as long as every write was made without an origin, the current
\* column is the number of characters of content after its last line break.
C3_CursorConsistency ==
    NoOriginSoFar => currentColumn = TrueColumn(content)

IsTextChar(ch) == ch \in Chars

\* C4 as stated: content never contains a \r.
C4_NoCarriageReturn == \A k \in 1..Len(content) : content[k] # CR

\* C4, amended: line breaks reach content as they were written (\r\n as
\* \r\n, \r as \r, \n as \n): content without the indent characters is the
\* concatenation of the written texts.
C4_TextKept == SelectSeq(content, IsTextChar) = written

C4_Witness ==
    /\ lastCall.op = "write"
    /\ \E k \in 1..(Len(content) - 1) : content[k] = CR /\ content[k + 1] = LF

\* The last call was the first write on the writer, made with no indent.
FirstPlainWrite ==
    /\ lastCall.op = "write"
    /\ lastCall.first
    /\ lastCall.indentString = <<>>

\* The source an entry of a builder points to.
SourceOf(builder, entry) == builder.sources[entry.sourceIndex + 1]

\* C5: when the first write hands the writer the whole output of an
\* earlier stage, with that stage's file as the origin at line 0, column 0,
\* the composed map never names the stage's file: every entry is the entry
\* of the stage's map at the same line and column, with its source, line
\* and column in the original, and the sources list holds originals only.
C5_ComposedPointsToOriginal ==
    LET stage == File(lastCall.origin.file)
        m1 == stage.sourceMapBuilder
    IN  (/\ FirstPlainWrite
         /\ lastCall.origin.has
         /\ stage.hasMap
         /\ lastCall.text = stage.content
         /\ lastCall.origin.line = 0
         /\ lastCall.origin.column = 0)
        => /\ \A k \in 1..Len(sourceMapBuilder.sources) :
                 sourceMapBuilder.sources[k] # FilePath(stage)
           /\ \A line \in DOMAIN sourceMapBuilder.mappings :
                 \A k \in 1..Len(sourceMapBuilder.mappings[line]) :
                    LET e == sourceMapBuilder.mappings[line][k]
                        origin == LineMappings(m1.mappings, line)
                    IN  \E j \in 1..Len(origin) :
                           /\ origin[j].column = e.column
                           /\ SourceOf(m1, origin[j]) = SourceOf(sourceMapBuilder, e)
                           /\ origin[j].sourceLine = e.sourceLine
                           /\ origin[j].sourceColumn = e.sourceColumn

\* The number of line breaks of a text, a \r\n pair being one.
LineBreaks(text) == TrueLine(text)

\* The mapping table with one entry at column 0 of each line in `lines`,
\* line j mapped to line l + j of source 0, at column c for line 0 and at
\* column 0 for the others.
LineStartTable(lines, l, c) ==
    [j \in lines |-> << Mapping(0, 0, l + j, IF j = 0 THEN c ELSE 0, NoName) >>]

\* The last call was the first write, made with no indent, of a text with
\* an origin file that carries no source map.
FirstWriteFromLeaf ==
    /\ FirstPlainWrite
    /\ lastCall.origin.has
    /\ ~File(lastCall.origin.file).hasMap

\* C6 as stated: such a write of a text with k line breaks leaves exactly
\* k + 1 entries, line 0 column 0 mapped to f:l:c and line j column 0
\* mapped to f:(l+j):0 for j in 1..k.
C6_OneEntryPerLine ==
    FirstWriteFromLeaf =>
        /\ sourceMapBuilder.sources = << FilePath(File(lastCall.origin.file)) >>
        /\ sourceMapBuilder.mappings =
              LineStartTable(0..LineBreaks(lastCall.text), lastCall.origin.line, lastCall.origin.column)

\* C6, amended: line j column 0 is mapped to f:(l+j):0 for each j in 1..k,
\* and line 0 column 0 is mapped to f:l:c exactly when the text does not
\* begin with a line break; there are no other entries.
C6_OneEntryPerStartedLine ==
    FirstWriteFromLeaf =>
        /\ sourceMapBuilder.sources = << FilePath(File(lastCall.origin.file)) >>
        /\ sourceMapBuilder.mappings =
              LineStartTable((IF IsLineBreakChar(lastCall.text[1]) THEN {} ELSE {0})
                                \cup 1..LineBreaks(lastCall.text),
                             lastCall.origin.line, lastCall.origin.column)

C6_Witness ==
    /\ FirstWriteFromLeaf
    /\ ~IsLineBreakChar(lastCall.text[1])
    /\ LineBreaks(lastCall.text) = 1
    /\ lastCall.origin.column > 0
    /\ DOMAIN sourceMapBuilder.mappings = {0, 1}

\* C7: the mapping table and the sources list change only in a write that
\* carries an origin; a write without one, like indent and unindent,
\* leaves both as they were.
C7_NoOriginSilent ==
    [][sourceMapBuilder' # sourceMapBuilder => (lastCall'.op = "write" /\ lastCall'.origin.has)]_vars

C7_Witness ==
    /\ lastCall.op = "write"
    /\ ~lastCall.origin.has
    /\ ~lastCall.first
    /\ sourceMapBuilder.sources # <<>>
    /\ \E k \in 1..Len(lastCall.text) : IsLineBreakChar(lastCall.text[k])

\* C8: the entries of every generated line are in strictly ascending
\* column order.
C8_AscendingColumns ==
    \A line \in DOMAIN sourceMapBuilder.mappings :
        \A k \in 1..(Len(sourceMapBuilder.mappings[line]) - 1) :
            sourceMapBuilder.mappings[line][k].column < sourceMapBuilder.mappings[line][k + 1].column

\* C9: every fresh entry of an origin-bearing write sits on the line of
\* content on which the text it maps starts, at a column that is at most
\* the column of content at which that text starts.
C9_TruePositions ==
    lastCall.op = "write" =>
        \A k \in 1..Len(lastCall.fresh) :
            LET f == lastCall.fresh[k]
                before == SubSeq(content, 1, f.offset)
            IN  /\ f.line = TrueLine(before)
                /\ f.column <= TrueColumn(before)

\* A line break of text ends at position k (1-based): a \n, or a \r that is
\* not the first half of a \r\n pair.
LineBreakEndsAt(text, k) ==
    \/ text[k] = LF
    \/ text[k] = CR /\ ~(k < Len(text) /\ text[k + 1] = LF)

\* The first k characters of text with one copy of indent after each of
\* their line breaks.
RECURSIVE IndentedPrefix(_, _, _)
IndentedPrefix(text, k, indent) ==
    IF k = 0 THEN <<>>
    ELSE IndentedPrefix(text, k - 1, indent) \o <<text[k]>>
            \o (IF LineBreakEndsAt(text, k) THEN indent ELSE <<>>)

Indented(text, indent) == IndentedPrefix(text, Len(text), indent)

C14_CapacityMonotone ==
    [][/\ Capacity' >= Capacity
       /\ Capacity' > Capacity => (bufferOp' = "write" /\ length' > Capacity)]_vars

C14_Witness ==
    /\ bufferOp = "write"
    /\ Capacity > initialCapacity
    /\ length >= Capacity

\* C13: no call before end() assigns a field of the output target, and
\* end() assigns the bytes appended so far, the live region [0, length), to
\* the target's buffer and nothing else.
C13_StreamCommitsLiveRegion ==
    /\ bufferOp # "end" => file = NoFile
    /\ bufferOp = "end" => /\ file.assigned = {"buffer"}
                           /\ file.buffer = appended

\* The step is a write, with a leaf file as origin, of a text without a
\* line break.
LeafWriteOfOneLine ==
    /\ lastCall'.op = "write"
    /\ lastCall'.origin.has
    /\ ~File(lastCall'.origin.file).hasMap
    /\ LineBreaks(lastCall'.text) = 0

\* The step adds exactly one entry to the mapping table, on the line and at
\* the column of the cursor it started from.
AddsOneEntryAtCursor ==
    LET before == LineMappings(sourceMapBuilder.mappings, currentLine)
        after == LineMappings(sourceMapBuilder'.mappings, currentLine)
    IN  /\ Len(after) = Len(before) + 1
        /\ after[Len(after)].column = currentColumn
        /\ sourceMapBuilder'.mappings =
              SetLine(sourceMapBuilder.mappings, currentLine, Append(before, after[Len(after)]))

\* C15 as stated: a write with a leaf origin of any text without a line
\* break, the empty text included, adds exactly one entry at the cursor.
C15_OneEntryForEveryText ==
    [][LeafWriteOfOneLine => AddsOneEntryAtCursor]_vars

\* C15: a write with a leaf origin of a non-empty text without a line
\* break adds exactly one entry, on the current line at the current column.
C15_OneEntryForNonEmptyText ==
    [][(LeafWriteOfOneLine /\ lastCall'.text # <<>>) => AddsOneEntryAtCursor]_vars

C15_Witness ==
    /\ lastCall.op = "write"
    /\ lastCall.origin.has
    /\ ~File(lastCall.origin.file).hasMap
    /\ LineBreaks(lastCall.text) = 0
    /\ lastCall.text # <<>>
    /\ ~lastCall.first
    /\ Len(lastCall.fresh) = 1
    /\ lastCall.fresh[1].line > 0

\* The last call was the first write, made with no indent, of a text with
\* an origin file that carries a source map.
FirstWriteFromStage ==
    /\ FirstPlainWrite
    /\ lastCall.origin.has
    /\ File(lastCall.origin.file).hasMap

\* The entries of a line that were copied from the map of the stage file:
\* the fresh entries name the stage file itself.
CopiedOnLine(builder, line, stage) ==
    {k \in 1..Len(LineMappings(builder.mappings, line)) :
        SourceOf(builder, LineMappings(builder.mappings, line)[k]) # FilePath(stage)}

\* C16: on the last line a write scans, no entry is copied from the origin
\* map whose column is at or after the end of the part of the origin line
\* the write consumed.  For a first write with no indent the copied entries
\* of the last generated line are therefore at columns below the number of
\* characters written after the last line break (the whole text when it has
\* none).
C16_TrimsLastLine ==
    FirstWriteFromStage =>
        LET line == LineBreaks(lastCall.text)
            entries == LineMappings(sourceMapBuilder.mappings, line)
        IN  \A k \in CopiedOnLine(sourceMapBuilder, line, File(lastCall.origin.file)) :
                entries[k].column < TrueColumn(lastCall.text)

\* Entry e of the builder `after` is the copy of entry m of the stage's map,
\* rebased from origin column oc to generated column gc.
IsRebasedCopy(after, e, stage, m, oc, gc) ==
    /\ e.column = m.column - oc + gc
    /\ e.sourceLine = m.sourceLine
    /\ e.sourceColumn = m.sourceColumn
    /\ e.nameIndex = m.nameIndex
    /\ SourceOf(after, e) = stage.sourceMapBuilder.sources[m.sourceIndex + 1]

\* C17: a write with a stage file (a file carrying a source map) as origin
\* keeps the entries each line had and adds, besides the fresh entries that
\* name the stage file, only rebased copies of entries the stage's map has
\* for the origin line: column = entry.column - originColumn + currentColumn
\* (originColumn 0 and currentColumn the indent length after a line break),
\* sourceLine, sourceColumn and nameIndex kept, source taken from the
\* stage's sources list; and no entry of the first line with a column
\* below originColumn is copied.
C17_CopiedEntriesRebased ==
    [][(lastCall'.op = "write" /\ lastCall'.origin.has /\ File(lastCall'.origin.file).hasMap) =>
          LET origin == lastCall'.origin
              stage == File(origin.file)
          IN  \A j \in 0..LineBreaks(lastCall'.text) :
                LET before == LineMappings(sourceMapBuilder.mappings, currentLine + j)
                    after == LineMappings(sourceMapBuilder'.mappings, currentLine + j)
                    oc == IF j = 0 THEN origin.column ELSE 0
                    gc == IF j = 0 THEN currentColumn ELSE Len(lastCall'.indentString)
                    originLine == LineMappings(stage.sourceMapBuilder.mappings, origin.line + j)
                IN  /\ Len(after) >= Len(before)
                    /\ SubSeq(after, 1, Len(before)) = before
                    /\ \A k \in (Len(before) + 1)..Len(after) :
                          \/ SourceOf(sourceMapBuilder', after[k]) = FilePath(stage)
                          \/ \E n \in 1..Len(originLine) :
                                /\ IsRebasedCopy(sourceMapBuilder', after[k], stage, originLine[n], oc, gc)
                                /\ j = 0 => originLine[n].column >= origin.column]_vars

\* A second write, starting past column 0, copied the entry the stage's map
\* has at the origin column onto the cursor it started from.
C17_Witness ==
    /\ lastCall.op = "write"
    /\ ~lastCall.first
    /\ lastCall.origin = [has |-> TRUE, file |-> "B", line |-> 0, column |-> 1]
    /\ Len(lastCall.fresh) = 1
    /\ lastCall.fresh[1].column > 0
    /\ \E k \in 1..Len(LineMappings(sourceMapBuilder.mappings, lastCall.fresh[1].line)) :
          LET e == LineMappings(sourceMapBuilder.mappings, lastCall.fresh[1].line)[k]
          IN  /\ e.column = lastCall.fresh[1].column
              /\ SourceOf(sourceMapBuilder, e) = "O.src"
              /\ e.sourceLine = 3 /\ e.sourceColumn = 6 /\ e.nameIndex = 0

\* C18: the current line never decreases; a write advances it by the number
\* of line breaks of its text (\r\n being one, a lone \r or \n one) and no
\* other call changes it, so it is the total of the line breaks of the
\* written texts; and a write with an origin pushes exactly one fresh entry
\* after each of its line breaks, the entry after the j-th break being on
\* line currentLine + j with origin line originLine + j.
C18_LineCursor ==
    [][/\ currentLine' >= currentLine
       /\ currentLine' = currentLine +
             (IF lastCall'.op = "write" THEN LineBreaks(lastCall'.text) ELSE 0)
       /\ (lastCall'.op = "write" /\ lastCall'.origin.has) =>
             \A j \in 1..LineBreaks(lastCall'.text) :
                /\ Cardinality({k \in 1..Len(lastCall'.fresh) :
                                   lastCall'.fresh[k].line = currentLine + j}) = 1
                /\ \A k \in 1..Len(lastCall'.fresh) :
                      lastCall'.fresh[k].line = currentLine + j
                         => lastCall'.fresh[k].sourceLine = lastCall'.origin.line + j]_vars

C18_Witness ==
    /\ lastCall.op = "write"
    /\ lastCall.text = <<CR, LF>>
    /\ lastCall.origin.has
    /\ lastCall.origin.line = 1
    /\ currentLine = 1
    /\ Len(lastCall.fresh) = 1
    /\ lastCall.fresh[1].line = 1
    /\ lastCall.fresh[1].sourceLine = 2

\* A writer right after construction, as write finds it.
FreshWriter ==
    [content |-> <<>>, line |-> 0, column |-> 0, sourceLine |-> 0, sourceColumn |-> 0,
     mappings |-> NoLines, sources |-> <<>>, fresh |-> <<>>]

\* C19: write(a) then write(b), both without origin and under the same
\* indentString, leave the content of the Writer and of the SourceMapWriter,
\* and the cursor of the latter, as the single write(a + b) does.  Stated
\* for the first two writes on a writer, whose starting state is known.
C19_ChunkingIndependent ==
    [][(/\ lastCall.op = "write" /\ lastCall.first /\ ~lastCall.origin.has
        /\ lastCall'.op = "write" /\ ~lastCall'.origin.has
        /\ lastCall'.indentString = lastCall.indentString) =>
          LET ab == lastCall.text \o lastCall'.text
              single == WriteResult(FreshWriter, lastCall.indentString, ab, NoOrigin)
          IN  /\ content' = single.content
              /\ currentLine' = single.line
              /\ currentColumn' = single.column
              /\ plainContent' = PlainWriteResult(<<>>, lastCall.indentString, ab)]_vars

====
